---- MODULE Spec2Model ----
(***************************************************************************)
(* ScrollAwareNav (src/src/index.ts): a controller that toggles the        *)
(* "fixed" and "hidden" classes of one element from the scroll position.   *)
(* A scroll event schedules at most one animation frame; the frame         *)
(* callback reads the scroll offset and the viewport / document heights,   *)
(* applies the first matching rule and records the offset.                 *)
(***************************************************************************)
EXTENDS Integers, Sequences, FiniteSets, TLC

\* ------------------------------------------------------------------------
\* Bounds of the model
\* ------------------------------------------------------------------------
MaxOffset == 3
MaxStartOffset == 1
MaxTolerance == 2
MaxDocHeight == 6
MaxHandle == 2
MaxEvents == 2

\* window.pageYOffset: 0..MaxOffset, and one negative (rubber-band) value
Offsets == {-1} \cup (0..MaxOffset)
StartOffsets == 0..MaxStartOffset
Tolerances == 0..MaxTolerance
Viewports == {1, 2}
DocHeights == {3, MaxDocHeight}
Handles == 1..MaxHandle

\* ------------------------------------------------------------------------
\* Class names (the defaults of the constructor)
\* ------------------------------------------------------------------------
base == "scroll-nav"
fixed == "scroll-nav--fixed"
hidden == "scroll-nav--hidden"

VARIABLES
    \* configuration, resolved by the constructor
    startOffset, tolerance, showAtBottom,
    \* controller fields
    scrollLast,       \* offset recorded by the latest evaluation
    scrollRAF,        \* handle of the pending frame, 0 for undefined
    isInitialized,
    \* the tracked element
    classList,
    \* window and document
    pageYOffset, viewportHeight, scrollHeight,
    listeners,        \* scroll listeners registered on window
    frameCallbacks,   \* handles of the animation frames scheduled and not yet run
    \* the host in which the constructor and isSupported() run, the element
    \* handed to the constructor, and how the two calls ended
    construction,
    \* the scripted page of a scenario: which scenario runs and how far it is
    scenario,
    \* observation
    burst,            \* what happened since the pending frame was scheduled
    cancelled,        \* destroy() cancelled a frame, and since then there was
                      \* no evaluation and no reset(), fix() or hide() call
    last              \* the latest step: the operation, the calls it made, the state before

setting == <<construction, scenario>>
config == <<startOffset, tolerance, showAtBottom>>
controller == <<scrollLast, scrollRAF, isInitialized>>
environment == <<pageYOffset, viewportHeight, scrollHeight>>
vars == <<construction, scenario, startOffset, tolerance, showAtBottom,
          scrollLast, scrollRAF, isInitialized,
          classList, pageYOffset, viewportHeight, scrollHeight, listeners,
          frameCallbacks, burst, cancelled, last>>

\* ------------------------------------------------------------------------
\* Helpers
\* ------------------------------------------------------------------------
abs(x) == IF x < 0 THEN 0 - x ELSE x

addClass(cl, names) == cl \cup names

removeClass(cl, names) == cl \ names

\* reset(): remove the fixed and the hidden class
resetOnlyHidden(cl) == removeClass(cl, {hidden})
resetRemovesBase(cl) == removeClass(cl, {base, fixed, hidden})
reset(cl) == removeClass(cl, {fixed, hidden})

\* fix(): add the fixed class, remove the hidden class
fixNoRemove(cl) == addClass(cl, {fixed})
fixOnlyRemoves(cl) == removeClass(cl, {hidden})
fix(cl) == removeClass(addClass(cl, {fixed}), {hidden})

\* hide(): add the hidden class
hideRemovesFixed(cl) == removeClass(addClass(cl, {hidden}), {fixed})
hide(cl) == addClass(cl, {hidden})

\* the scroll offset the frame callback works with: read when the frame runs
scrollCurrentAtSchedule == burst.offset
scrollCurrent == pageYOffset

\* the conditions of the three rules of the frame callback
atTopNever(cur) == FALSE
atTop(cur) == cur <= 0

atBottomNoEpsilon(cur, vh, sh, sab) == sab /\ vh + cur >= sh
atBottomIgnoringOption(cur, vh, sh, sab) == vh + cur >= sh - 1
atBottom(cur, vh, sh, sab) == sab /\ vh + cur >= sh - 1

pastStartOnly(prev, cur, so, tol) == cur > so
pastToleranceOnly(prev, cur, so, tol) == abs(cur - prev) >= tol
pastStartInclusive(prev, cur, so, tol) == cur >= so /\ abs(cur - prev) >= tol
pastToleranceStrict(prev, cur, so, tol) == cur > so /\ abs(cur - prev) > tol
pastToleranceOffByOne(prev, cur, so, tol) == cur > so /\ abs(cur - prev) + 1 >= tol
pastStartAndTolerance(prev, cur, so, tol) == cur > so /\ abs(cur - prev) >= tol

directionInverted(prev, cur) == IF cur > prev THEN "fix" ELSE "hide"
direction(prev, cur) == IF cur > prev THEN "hide" ELSE "fix"

\* which method the frame callback calls: first matching rule
ruleBottomFirst(prev, cur, vh, sh, so, tol, sab) ==
    IF atBottom(cur, vh, sh, sab) THEN "fix"
    ELSE IF atTop(cur) THEN "reset"
    ELSE IF pastStartAndTolerance(prev, cur, so, tol) THEN direction(prev, cur)
    ELSE "none"
rule(prev, cur, vh, sh, so, tol, sab) ==
    IF atTop(cur) THEN "reset"
    ELSE IF atBottom(cur, vh, sh, sab) THEN "fix"
    ELSE IF pastStartAndTolerance(prev, cur, so, tol) THEN direction(prev, cur)
    ELSE "none"

apply(r, cl) ==
    CASE r = "reset" -> reset(cl)
      [] r = "fix"   -> fix(cl)
      [] r = "hide"  -> hide(cl)
      [] OTHER       -> cl

\* the class list after one run of the frame callback
evaluateUnlessHidden(cl, prev, cur, vh, sh, so, tol, sab) ==
    IF hidden \in cl THEN cl ELSE apply(rule(prev, cur, vh, sh, so, tol, sab), cl)
evaluate(cl, prev, cur, vh, sh, so, tol, sab) ==
    apply(rule(prev, cur, vh, sh, so, tol, sab), cl)

\* this.scrollLast = scrollCurrent, after the rules, whichever rule matched
keepOffset(prev, cur, r) == prev
recordOnlyOnTransition(prev, cur, r) == IF r = "none" THEN prev ELSE cur
recordOffset(prev, cur, r) == cur

\* the class list after n runs of the frame callback in one refresh tick:
\* the first run compares with scrollLast, the later ones with the offset
\* the run before them recorded
RECURSIVE runCallbacks(_, _, _, _, _, _, _, _, _)
runCallbacks(n, cl, prev, cur, vh, sh, so, tol, sab) ==
    IF n = 0 THEN cl
    ELSE runCallbacks(n - 1, evaluate(cl, prev, cur, vh, sh, so, tol, sab),
                      recordOffset(prev, cur, rule(prev, cur, vh, sh, so, tol, sab)),
                      cur, vh, sh, so, tol, sab)

\* window.addEventListener / removeEventListener for the scroll event: the
\* listener list holds a callback once, and removal needs the same callback
addNoListener(ls, cb) == ls
addEventListener(ls, cb) == ls \cup {cb}

removeOtherListener(ls, cb) == ls
removeUnboundListener(ls, cb) == ls \ {"handleScroll.bind(this)"}
removeEventListener(ls, cb) == ls \ {cb}

\* window.cancelAnimationFrame: the frame of that handle will not run
cancelNothing(q, h) == q
cancelAnimationFrame(q, h) == q \ {h}

\* requestAnimationFrame returns a positive handle that is not in use
newHandle == CHOOSE h \in Handles \ frameCallbacks :
                 \A g \in Handles \ frameCallbacks : h <= g

\* the guards of init(), destroy() and handleScroll
neverInitialized == FALSE
alreadyInitialized == isInitialized

destroyNeverSkips == FALSE
notInitialized == ~isInitialized

neverPending == FALSE
framePending == scrollRAF # 0

\* this.scrollRAF = undefined, at the end of the frame callback
keepHandle(h) == h
clearHandle(h) == 0

idle == [events |-> 0, requests |-> 0, offset |-> 0]

\* isBrowser(): typeof window === 'object' && typeof document === 'object' &&
\* document instanceof Document.  typeof never throws and null has type
\* 'object'; instanceof evaluates the global Document, which throws a
\* ReferenceError when there is no such global.
isBrowser(h) ==
    IF h.windowType = "undefined" THEN "false"
    ELSE IF h.documentType = "undefined" THEN "false"
    ELSE IF h.DocumentGlobal = "undefined" THEN "ReferenceError"
    ELSE IF h.instanceOfDocument THEN "true"
    ELSE "false"

\* isSupported(): isBrowser() is called outside the try block; inside it,
\* 'requestAnimationFrame' in window && 'classList' in document.documentElement,
\* where the in operator throws a TypeError on null, which is caught
isSupported(h) ==
    IF isBrowser(h) = "ReferenceError" THEN "ReferenceError"
    ELSE IF isBrowser(h) = "false" THEN "false"
    ELSE IF h.windowType = "null" THEN "false"
    ELSE IF ~h.hasRAF THEN "false"
    ELSE IF h.documentElement = "null" THEN "false"
    ELSE IF h.documentElement = "classList" THEN "true"
    ELSE "false"

\* how new ScrollAwareNav(element) ends: the three checks in their order
constructorOutcome(h) ==
    IF isBrowser(h) = "ReferenceError" THEN "ReferenceError"
    ELSE IF isBrowser(h) = "false" THEN "EnvironmentError"
    ELSE IF h.element = "null" THEN "ElementError"
    ELSE IF isSupported(h) # "true" THEN "SupportError"
    ELSE "constructed"

\* this.scrollLast = window.pageYOffset
seedFromScrollHeight == scrollHeight
seedScrollLast == pageYOffset

\* an option of the constructor's second argument: given with a value, or
\* left out
Optional(values, blank) ==
    {[given |-> TRUE, value |-> v] : v \in values} \cup {[given |-> FALSE, value |-> blank]}

\* options.startOffset ?? element.offsetHeight, options.tolerance ?? 8: the
\* default only for an option left out, a given 0 is kept
orDefaultUnlessFalsy(o, d) == IF o.given /\ o.value # 0 THEN o.value ELSE d
orDefault(o, d) == IF o.given THEN o.value ELSE d

\* options.showAtBottom ?? true: a given false is kept
orDefaultFlag(o, d) == IF o.given THEN o.value ELSE d

DefaultTolerance == 8

\* element.offsetHeight
ElementHeights == 0..MaxStartOffset

\* a browser in which the constructor has succeeded
BrowserHost ==
    [windowType |-> "object", documentType |-> "object",
     DocumentGlobal |-> "function", instanceOfDocument |-> TRUE,
     hasRAF |-> TRUE, documentElement |-> "classList", element |-> "element",
     outcome |-> "constructed", supported |-> "none"]

\* the hosts in which the constructor or isSupported() may be called
Hosts ==
    {h \in [windowType : {"undefined", "null", "object"},
            documentType : {"undefined", "object"},
            DocumentGlobal : {"undefined", "function"},
            instanceOfDocument : BOOLEAN,
            hasRAF : BOOLEAN,
            documentElement : {"null", "noClassList", "classList"},
            element : {"null", "element"},
            offsetHeight : ElementHeights,
            options : [startOffset : Optional(StartOffsets, 0),
                       tolerance : Optional(Tolerances, 0),
                       showAtBottom : Optional(BOOLEAN, FALSE)],
            outcome : {"none"}, supported : {"none"}] :
        /\ h.instanceOfDocument
              => (h.documentType = "object" /\ h.DocumentGlobal = "function")
        /\ h.hasRAF => h.windowType = "object"
        /\ h.documentElement # "null" => h.instanceOfDocument
        /\ h.element = "null" => h.offsetHeight = 0}

\* the record of a step: the operation, the rule an evaluation took, the
\* number of evaluations, the calls made to window, and the state before
Snapshot(op, r, n, calls) ==
    [op |-> op, rule |-> r, evals |-> n, calls |-> calls,
     isInitialized |-> isInitialized, classList |-> classList,
     scrollLast |-> scrollLast, scrollRAF |-> scrollRAF,
     listeners |-> listeners, burst |-> burst]

\* ------------------------------------------------------------------------
\* Initial state: after new ScrollAwareNav(element, options)
\* ------------------------------------------------------------------------
NoScenario == [name |-> "none"]

\* what the constructor leaves in the controller and on the element
Constructed ==
    /\ scrollLast = seedScrollLast
    /\ scrollRAF = 0
    /\ isInitialized = TRUE
    /\ classList = {base}
    /\ listeners = {"handleScroll"}
    /\ frameCallbacks = {}
    /\ burst = idle
    /\ cancelled = FALSE
    /\ last = [op |-> "constructor", rule |-> "-", evals |-> 0,
               calls |-> <<"addEventListener">>,
               isInitialized |-> FALSE, classList |-> {},
               scrollLast |-> pageYOffset, scrollRAF |-> 0,
               listeners |-> {}, burst |-> idle]

Init ==
    /\ construction = BrowserHost
    /\ scenario = NoScenario
    /\ startOffset \in StartOffsets
    /\ tolerance \in Tolerances
    /\ showAtBottom \in BOOLEAN
    /\ pageYOffset \in Offsets
    /\ viewportHeight \in Viewports
    /\ scrollHeight \in DocHeights
    /\ Constructed

\* ------------------------------------------------------------------------
\* The public methods, called by the client
\* ------------------------------------------------------------------------
CallInit ==
    /\ IF alreadyInitialized
       THEN /\ UNCHANGED <<isInitialized, classList, listeners>>
            /\ last' = Snapshot("init", "-", 0, <<>>)
       ELSE /\ isInitialized' = TRUE
            /\ classList' = addClass(classList, {base})
            /\ listeners' = addEventListener(listeners, "handleScroll")
            /\ last' = Snapshot("init", "-", 0, <<"addEventListener">>)
    /\ UNCHANGED <<setting, config, scrollLast, scrollRAF, environment, frameCallbacks, burst,
                   cancelled>>

CallDestroy ==
    /\ IF notInitialized
       THEN /\ UNCHANGED <<isInitialized, classList, listeners, scrollRAF,
                           frameCallbacks, burst, cancelled>>
            /\ last' = Snapshot("destroy", "-", 0, <<>>)
       ELSE /\ isInitialized' = FALSE
            /\ listeners' = removeEventListener(listeners, "handleScroll")
            /\ classList' = reset(classList)
            /\ IF scrollRAF # 0
               THEN /\ frameCallbacks' = cancelAnimationFrame(frameCallbacks, scrollRAF)
                    /\ scrollRAF' = 0
                    /\ cancelled' = TRUE
                    /\ last' = Snapshot("destroy", "-", 0,
                                        <<"removeEventListener", "cancelAnimationFrame">>)
               ELSE /\ UNCHANGED <<frameCallbacks, scrollRAF, cancelled>>
                    /\ last' = Snapshot("destroy", "-", 0, <<"removeEventListener">>)
            /\ burst' = idle
    /\ UNCHANGED <<setting, config, scrollLast, environment>>

CallResetSeedsOffset ==
    /\ classList' = reset(classList)
    /\ scrollLast' = pageYOffset
    /\ cancelled' = FALSE
    /\ last' = Snapshot("reset", "-", 0, <<>>)
    /\ UNCHANGED <<setting, config, scrollRAF, isInitialized, environment, listeners,
                   frameCallbacks, burst>>

CallReset ==
    /\ classList' = reset(classList)
    /\ cancelled' = FALSE
    /\ last' = Snapshot("reset", "-", 0, <<>>)
    /\ UNCHANGED <<setting, config, controller, environment, listeners, frameCallbacks, burst>>

CallFix ==
    /\ classList' = fix(classList)
    /\ cancelled' = FALSE
    /\ last' = Snapshot("fix", "-", 0, <<>>)
    /\ UNCHANGED <<setting, config, controller, environment, listeners, frameCallbacks, burst>>

CallHide ==
    /\ classList' = hide(classList)
    /\ cancelled' = FALSE
    /\ last' = Snapshot("hide", "-", 0, <<>>)
    /\ UNCHANGED <<setting, config, controller, environment, listeners, frameCallbacks, burst>>

\* ------------------------------------------------------------------------
\* The environment: the page is scrolled or laid out again, a scroll event
\* is dispatched, the display refreshes
\* ------------------------------------------------------------------------
ScrollTo ==
    /\ \E y \in Offsets \ {pageYOffset} : pageYOffset' = y
    /\ last' = Snapshot("environment", "-", 0, <<>>)
    /\ UNCHANGED <<setting, config, controller, classList, viewportHeight, scrollHeight,
                   listeners, frameCallbacks, burst, cancelled>>

Layout ==
    /\ \E vh \in Viewports, sh \in DocHeights :
          /\ <<vh, sh>> # <<viewportHeight, scrollHeight>>
          /\ viewportHeight' = vh
          /\ scrollHeight' = sh
    /\ last' = Snapshot("environment", "-", 0, <<>>)
    /\ UNCHANGED <<setting, config, controller, classList, pageYOffset,
                   listeners, frameCallbacks, burst, cancelled>>

\* a scroll event: window calls handleScroll when it is registered
handleScroll ==
    /\ "handleScroll" \in listeners
    /\ burst.events < MaxEvents
    /\ IF framePending
       THEN /\ UNCHANGED <<scrollRAF, frameCallbacks>>
            /\ burst' = [burst EXCEPT !.events = @ + 1]
            /\ last' = Snapshot("handleScroll", "-", 0, <<>>)
       ELSE /\ Handles \ frameCallbacks # {}
            /\ scrollRAF' = newHandle
            /\ frameCallbacks' = frameCallbacks \cup {newHandle}
            /\ burst' = [events |-> burst.events + 1,
                         requests |-> burst.requests + 1,
                         offset |-> IF burst.requests = 0 THEN pageYOffset
                                    ELSE burst.offset]
            /\ last' = Snapshot("handleScroll", "-", 0, <<"requestAnimationFrame">>)
    /\ UNCHANGED <<setting, config, scrollLast, isInitialized, classList, environment, listeners,
                   cancelled>>

\* a scroll event while no listener is registered reaches nobody
ScrollEventUnheard ==
    /\ "handleScroll" \notin listeners
    /\ last' = Snapshot("scrollEvent", "-", 0, <<>>)
    /\ UNCHANGED <<setting, config, controller, classList, environment, listeners,
                   frameCallbacks, burst, cancelled>>

\* the refresh tick: window runs every scheduled frame callback
AnimationFrame ==
    /\ frameCallbacks # {}
    /\ LET n == Cardinality(frameCallbacks)
           cur == scrollCurrent
       IN /\ classList' = runCallbacks(n, classList, scrollLast, cur, viewportHeight,
                                       scrollHeight, startOffset, tolerance, showAtBottom)
          /\ scrollLast' = recordOffset(scrollLast, cur,
                                        rule(scrollLast, cur, viewportHeight, scrollHeight,
                                             startOffset, tolerance, showAtBottom))
          /\ last' = Snapshot("frame",
                              rule(scrollLast, cur, viewportHeight, scrollHeight,
                                   startOffset, tolerance, showAtBottom),
                              n, <<>>)
    /\ scrollRAF' = clearHandle(scrollRAF)
    /\ frameCallbacks' = {}
    /\ burst' = idle
    /\ cancelled' = FALSE
    /\ UNCHANGED <<setting, config, isInitialized, environment, listeners>>

Next ==
    \/ CallInit
    \/ CallDestroy
    \/ CallReset
    \/ CallFix
    \/ CallHide
    \/ ScrollTo
    \/ Layout
    \/ handleScroll
    \/ ScrollEventUnheard
    \/ AnimationFrame

Spec == Init /\ [][Next]_vars

\* the same program in an environment that runs every frame that stays
\* scheduled (requestAnimationFrame calls the callback before a next
\* repaint), for one configuration: the throttle reads none of the options
InitLive ==
    /\ Init
    /\ startOffset = 0
    /\ tolerance = 1
    /\ showAtBottom

SpecLive == InitLive /\ [][Next]_vars /\ WF_vars(AnimationFrame)

\* ------------------------------------------------------------------------
\* Scenario C: a controller constructed at offset 0 with startOffset and
\* tolerance given (20 and 15, and smaller values); the page goes to an
\* offset a past startOffset (50), then down by the tolerance, the client
\* calls reset(), the page goes back to a and then down by tolerance - 1.
\* After each move one scroll event is dispatched and the frame runs.
\* ------------------------------------------------------------------------
InitScenarioC ==
    /\ construction = BrowserHost
    /\ startOffset \in {0, MaxStartOffset, 20}
    /\ tolerance \in {1, MaxTolerance, 15}
    /\ showAtBottom \in BOOLEAN
    /\ pageYOffset = 0
    /\ viewportHeight = 1024
    /\ scrollHeight = 2000
    /\ \E a \in {startOffset + 1, 50} :
          scenario = [name |-> "C", pc |-> 0,
                      offsets |-> <<a, a + tolerance, a, a + tolerance - 1>>]
    /\ Constructed

\* the page is scrolled to the next offset of the scenario
ScenarioScroll ==
    /\ scenario.name = "C"
    /\ scenario.pc < Len(scenario.offsets)
    /\ frameCallbacks = {}
    /\ IF scenario.pc = 2 THEN last.op = "reset" ELSE last.op \in {"constructor", "frame"}
    /\ pageYOffset' = scenario.offsets[scenario.pc + 1]
    /\ scenario' = [scenario EXCEPT !.pc = @ + 1]
    /\ last' = Snapshot("environment", "-", 0, <<>>)
    /\ UNCHANGED <<construction, config, controller, classList, viewportHeight, scrollHeight,
                   listeners, frameCallbacks, burst, cancelled>>

\* one scroll event is dispatched after the page has moved
ScenarioEvent ==
    /\ last.op = "environment"
    /\ handleScroll

\* the client calls reset() after the second evaluation
ScenarioReset ==
    /\ scenario.name = "C"
    /\ scenario.pc = 2
    /\ last.op = "frame"
    /\ CallReset

NextScenarioC ==
    \/ ScenarioScroll
    \/ ScenarioEvent
    \/ AnimationFrame
    \/ ScenarioReset

SpecScenarioC == InitScenarioC /\ [][NextScenarioC]_vars

\* ------------------------------------------------------------------------
\* A slow scroll: after the client's fix() and hide() calls, if any, the page
\* moves in steps smaller than the tolerance, never to the top and never to
\* the bottom; after each move one scroll event is dispatched and the frame
\* runs.  The scenario records where the page and the element started.
\* ------------------------------------------------------------------------
InitSlowScroll ==
    /\ construction = BrowserHost
    /\ scenario = [name |-> "slow", started |-> FALSE, origin |-> 0, classList |-> {}]
    /\ startOffset \in StartOffsets
    /\ tolerance \in Tolerances
    /\ showAtBottom \in BOOLEAN
    /\ pageYOffset \in Offsets
    /\ viewportHeight \in Viewports
    /\ scrollHeight \in DocHeights
    /\ Constructed

\* the client calls fix() or hide() before the page moves
SlowManualCall ==
    /\ scenario.name = "slow"
    /\ ~scenario.started
    /\ (CallFix \/ CallHide)

\* the page moves by less than the tolerance, once the evaluation of the
\* move before has run
SlowScrollTo ==
    /\ scenario.name = "slow"
    /\ frameCallbacks = {}
    /\ last.op \in {"constructor", "fix", "hide", "frame"}
    /\ \E y \in Offsets \ {pageYOffset} :
          /\ y > 0
          /\ ~(showAtBottom /\ viewportHeight + y >= scrollHeight - 1)
          /\ abs(y - pageYOffset) < tolerance
          /\ pageYOffset' = y
    /\ scenario' = IF scenario.started THEN scenario
                   ELSE [name |-> "slow", started |-> TRUE,
                         origin |-> pageYOffset, classList |-> classList]
    /\ last' = Snapshot("environment", "-", 0, <<>>)
    /\ UNCHANGED <<construction, config, controller, classList, viewportHeight, scrollHeight,
                   listeners, frameCallbacks, burst, cancelled>>

NextSlowScroll ==
    \/ SlowManualCall
    \/ SlowScrollTo
    \/ ScenarioEvent
    \/ AnimationFrame

SpecSlowScroll == InitSlowScroll /\ [][NextSlowScroll]_vars

\* ------------------------------------------------------------------------
\* A client that never calls hide(): every other method is called and the
\* page moves freely.  The scenario records whether the scroll offset has
\* been above startOffset since the construction.
\* ------------------------------------------------------------------------
InitNoManualHide ==
    /\ construction = BrowserHost
    /\ startOffset \in StartOffsets
    /\ tolerance \in Tolerances
    /\ showAtBottom \in BOOLEAN
    /\ pageYOffset \in Offsets
    /\ viewportHeight \in Viewports
    /\ scrollHeight \in DocHeights
    /\ scenario = [name |-> "noHide", exceeded |-> pageYOffset > startOffset]
    /\ Constructed

\* the page is scrolled
WatchedScrollTo ==
    /\ scenario.name = "noHide"
    /\ \E y \in Offsets \ {pageYOffset} :
          /\ pageYOffset' = y
          /\ scenario' = [scenario EXCEPT !.exceeded = @ \/ y > startOffset]
    /\ last' = Snapshot("environment", "-", 0, <<>>)
    /\ UNCHANGED <<construction, config, controller, classList, viewportHeight, scrollHeight,
                   listeners, frameCallbacks, burst, cancelled>>

NextNoManualHide ==
    \/ CallInit
    \/ CallDestroy
    \/ CallReset
    \/ CallFix
    \/ WatchedScrollTo
    \/ Layout
    \/ handleScroll
    \/ ScrollEventUnheard
    \/ AnimationFrame

SpecNoManualHide == InitNoManualHide /\ [][NextNoManualHide]_vars

\* ------------------------------------------------------------------------
\* Construction: before new ScrollAwareNav(element, options), in any host
\* ------------------------------------------------------------------------
InitConstruct ==
    /\ construction \in Hosts
    /\ scenario = NoScenario
    /\ startOffset = 0
    /\ tolerance = 0
    /\ showAtBottom = FALSE
    /\ pageYOffset \in Offsets
    /\ viewportHeight \in Viewports
    /\ scrollHeight \in DocHeights
    /\ scrollLast = 0
    /\ scrollRAF = 0
    /\ isInitialized = FALSE
    /\ classList = {}
    /\ listeners = {}
    /\ frameCallbacks = {}
    /\ burst = idle
    /\ cancelled = FALSE
    /\ last = [op |-> "none", rule |-> "-", evals |-> 0, calls |-> <<>>,
               isInitialized |-> FALSE, classList |-> {},
               scrollLast |-> 0, scrollRAF |-> 0,
               listeners |-> {}, burst |-> idle]

\* new ScrollAwareNav(element, options): the checks, then the fields, then init()
Construct ==
    /\ construction.outcome = "none"
    /\ construction' = [construction EXCEPT !.outcome = constructorOutcome(construction)]
    /\ IF constructorOutcome(construction) = "constructed"
       THEN /\ startOffset' = orDefault(construction.options.startOffset,
                                        construction.offsetHeight)
            /\ tolerance' = orDefault(construction.options.tolerance, DefaultTolerance)
            /\ showAtBottom' = orDefaultFlag(construction.options.showAtBottom, TRUE)
            /\ scrollLast' = seedScrollLast
            /\ isInitialized' = TRUE
            /\ classList' = addClass(classList, {base})
            /\ listeners' = addEventListener(listeners, "handleScroll")
            /\ last' = Snapshot("constructor", "-", 0, <<"addEventListener">>)
       ELSE /\ UNCHANGED <<config, scrollLast, isInitialized, classList, listeners>>
            /\ last' = Snapshot("constructor", "-", 0, <<>>)
    /\ UNCHANGED <<scenario, scrollRAF, environment, frameCallbacks, burst, cancelled>>

\* ScrollAwareNav.isSupported()
CallIsSupported ==
    /\ construction.supported = "none"
    /\ construction' = [construction EXCEPT !.supported = isSupported(construction)]
    /\ last' = Snapshot("isSupported", "-", 0, <<>>)
    /\ UNCHANGED <<scenario, config, controller, classList, environment, listeners,
                   frameCallbacks, burst, cancelled>>

\* the element is laid out again with another height
Resize ==
    /\ construction.element = "element"
    /\ \E height \in ElementHeights \ {construction.offsetHeight} :
          construction' = [construction EXCEPT !.offsetHeight = height]
    /\ last' = Snapshot("environment", "-", 0, <<>>)
    /\ UNCHANGED <<scenario, config, controller, classList, environment, listeners,
                   frameCallbacks, burst, cancelled>>

NextConstruct ==
    \/ Construct
    \/ CallIsSupported
    \/ Resize

SpecConstruct == InitConstruct /\ [][NextConstruct]_vars

\* ------------------------------------------------------------------------
\* Properties.  In the state after a frame step, last.scrollLast is the
\* previous offset, last.classList the class list before the evaluation,
\* and pageYOffset, viewportHeight, scrollHeight are what the callback read.
\* ------------------------------------------------------------------------

\* C1: an evaluation that reads an offset <= 0 leaves neither the fixed nor
\* the hidden class on the element, whatever the configuration, the previous
\* offset, the metrics and the classes before.
C1_AtTopReset ==
    (last.op = "frame" /\ pageYOffset <= 0)
        => (fixed \notin classList /\ hidden \notin classList)

C1_Witness ==
    /\ last.op = "frame"
    /\ pageYOffset <= 0
    /\ hidden \in last.classList
    /\ showAtBottom
    /\ viewportHeight + pageYOffset >= scrollHeight - 1

\* C2 as stated: with showAtBottom, every evaluation that sees
\* viewport + offset >= document - 1 leaves the element fixed and not hidden.
C2_BottomAlwaysFixed ==
    (/\ last.op = "frame"
     /\ showAtBottom
     /\ viewportHeight + pageYOffset >= scrollHeight - 1)
        => (fixed \in classList /\ hidden \notin classList)

\* C2 amended: with showAtBottom, every evaluation that reads an offset > 0
\* and sees viewport + offset >= document - 1 leaves the element fixed and
\* not hidden, whatever the direction, the delta and the start offset.
C2_BottomOverride ==
    (/\ last.op = "frame"
     /\ showAtBottom
     /\ pageYOffset > 0
     /\ viewportHeight + pageYOffset >= scrollHeight - 1)
        => (fixed \in classList /\ hidden \notin classList)

C2_Witness ==
    /\ last.op = "frame"
    /\ showAtBottom
    /\ pageYOffset > 0
    /\ viewportHeight + pageYOffset = scrollHeight - 1
    /\ pageYOffset > last.scrollLast
    /\ pageYOffset - last.scrollLast >= tolerance
    /\ pageYOffset > startOffset
    /\ hidden \in last.classList
    /\ fixed \notin last.classList

\* C3: when neither the at-top nor the bottom rule fires, the offset is past
\* startOffset and the delta is at least the tolerance, a downward movement
\* leaves the hidden class present and an upward movement leaves the fixed
\* class present and the hidden class absent; 0 -> 100 -> 120 gives hidden
\* twice and 0 -> 200 -> 180 gives hidden then fixed (startOffset 50,
\* tolerance 8, viewport 1024, document 2000).
C3_DirectionRule ==
    /\ (/\ last.op = "frame"
        /\ pageYOffset > 0
        /\ ~(showAtBottom /\ viewportHeight + pageYOffset >= scrollHeight - 1)
        /\ pageYOffset > startOffset
        /\ abs(pageYOffset - last.scrollLast) >= tolerance)
           => /\ pageYOffset > last.scrollLast => hidden \in classList
              /\ pageYOffset < last.scrollLast
                    => (fixed \in classList /\ hidden \notin classList)
    /\ \A sab \in BOOLEAN :
          LET a1 == evaluate({base}, 0, 100, 1024, 2000, 50, 8, sab)
              a2 == evaluate(a1, 100, 120, 1024, 2000, 50, 8, sab)
              b1 == evaluate({base}, 0, 200, 1024, 2000, 50, 8, sab)
              b2 == evaluate(b1, 200, 180, 1024, 2000, 50, 8, sab)
          IN /\ hidden \in a1 /\ hidden \in a2
             /\ hidden \in b1
             /\ fixed \in b2 /\ hidden \notin b2

C3_Witness ==
    /\ last.op = "frame"
    /\ pageYOffset > 0
    /\ ~(showAtBottom /\ viewportHeight + pageYOffset >= scrollHeight - 1)
    /\ pageYOffset > startOffset
    /\ tolerance > 0
    /\ last.scrollLast - pageYOffset = tolerance
    /\ hidden \in last.classList
    /\ fixed \in classList

\* C4: when neither the at-top nor the bottom rule fires and the delta is
\* below the tolerance, the evaluation leaves the class list as it was; a
\* delta equal to the tolerance, past startOffset, does apply the direction
\* rule.
C4_ToleranceGate ==
    /\ (/\ last.op = "frame"
        /\ pageYOffset > 0
        /\ ~(showAtBottom /\ viewportHeight + pageYOffset >= scrollHeight - 1)
        /\ abs(pageYOffset - last.scrollLast) < tolerance)
           => (classList = last.classList /\ last.rule = "none")
    /\ (/\ last.op = "frame"
        /\ pageYOffset > 0
        /\ ~(showAtBottom /\ viewportHeight + pageYOffset >= scrollHeight - 1)
        /\ pageYOffset > startOffset
        /\ abs(pageYOffset - last.scrollLast) = tolerance)
           => (last.rule \in {"hide", "fix"})

C4_Witness ==
    /\ last.op = "frame"
    /\ pageYOffset > startOffset
    /\ ~(showAtBottom /\ viewportHeight + pageYOffset >= scrollHeight - 1)
    /\ pageYOffset < last.scrollLast
    /\ last.scrollLast - pageYOffset < tolerance
    /\ hidden \in last.classList
    /\ fixed \notin last.classList

\* C5: an evaluation that reads an offset in 1..startOffset, with the bottom
\* rule not firing, leaves the class list as it was, whatever the classes
\* before, the direction and the delta.
C5_StartOffsetThreshold ==
    (/\ last.op = "frame"
     /\ pageYOffset > 0
     /\ pageYOffset <= startOffset
     /\ ~(showAtBottom /\ viewportHeight + pageYOffset >= scrollHeight - 1))
        => (classList = last.classList /\ last.rule = "none")

C5_Witness ==
    /\ last.op = "frame"
    /\ pageYOffset > 0
    /\ pageYOffset <= startOffset
    /\ ~(showAtBottom /\ viewportHeight + pageYOffset >= scrollHeight - 1)
    /\ tolerance > 0
    /\ last.scrollLast - pageYOffset >= tolerance
    /\ hidden \in last.classList

\* C6 as stated: the fixed and the hidden class are never both present.
C6_MutualExclusion ==
    ~(fixed \in classList /\ hidden \in classList)

\* C6 amended: the two classes can be present together, and only become so
\* when hide() (called by the client or by a downward evaluation) acts on an
\* element that has the fixed class; reset(), fix(), a destroy() of an
\* active controller and every evaluation that calls reset() or fix() leave
\* the hidden class absent.
C6_HiddenOnlyJoinsFixed ==
    /\ (\/ last.op \in {"reset", "fix"}
        \/ (last.op = "destroy" /\ last.isInitialized)
        \/ (last.op = "frame" /\ last.rule \in {"reset", "fix"}))
           => hidden \notin classList
    /\ (fixed \in classList /\ hidden \in classList)
           => /\ fixed \in last.classList
              /\ \/ hidden \in last.classList
                 \/ last.op = "hide"
                 \/ (last.op = "frame" /\ last.rule = "hide")

C6_Witness ==
    /\ fixed \in classList
    /\ hidden \in classList
    /\ last.op = "frame"
    /\ last.rule = "hide"
    /\ hidden \notin last.classList

\* C7: however many scroll events reach an active controller before the
\* refresh tick, one frame is requested (by the first event, the later ones
\* do nothing) and the tick runs one evaluation; never more than one frame
\* is scheduled.
C7_ThrottleCoalescing ==
    /\ Cardinality(frameCallbacks) <= 1
    /\ burst.events >= 1
          => (burst.requests = 1 /\ scrollRAF # 0 /\ frameCallbacks = {scrollRAF})
    /\ (last.op = "handleScroll" /\ last.scrollRAF # 0)
          => (last.calls = <<>> /\ scrollRAF = last.scrollRAF)
    /\ (last.op = "handleScroll" /\ last.scrollRAF = 0)
          => (last.calls = <<"requestAnimationFrame">> /\ burst.events = 1)
    /\ last.op = "frame"
          => (last.evals = 1 /\ last.burst.events >= 1 /\ last.burst.requests = 1)

C7_Witness ==
    /\ last.op = "frame"
    /\ last.burst.events = MaxEvents
    /\ last.burst.events >= 2
    /\ last.evals = 1

\* C8: the evaluation decides on the offset and the metrics as they are when
\* the frame runs, not when the frame was requested, and records that offset.
C8_ReadsAtFrameTime ==
    last.op = "frame"
        => /\ scrollLast = pageYOffset
           /\ last.rule =
                 IF pageYOffset <= 0 THEN "reset"
                 ELSE IF showAtBottom /\ viewportHeight + pageYOffset >= scrollHeight - 1
                      THEN "fix"
                 ELSE IF pageYOffset > startOffset
                         /\ abs(pageYOffset - last.scrollLast) >= tolerance
                      THEN (IF pageYOffset > last.scrollLast THEN "hide" ELSE "fix")
                 ELSE "none"

C8_Witness ==
    /\ last.op = "frame"
    /\ last.burst.offset <= 0
    /\ pageYOffset > 0
    /\ scrollLast = pageYOffset
    /\ last.rule = "hide"

\* C9: init() on an active controller registers nothing and changes nothing;
\* after any init() there is exactly one scroll subscription.
C9_InitIdempotent ==
    /\ (last.op = "init" /\ last.isInitialized)
          => /\ last.calls = <<>>
             /\ isInitialized
             /\ listeners = last.listeners
             /\ classList = last.classList
             /\ scrollLast = last.scrollLast
             /\ scrollRAF = last.scrollRAF
             /\ burst = last.burst
    /\ last.op = "init" => Cardinality(listeners) = 1

C9_Witness ==
    /\ last.op = "init"
    /\ last.isInitialized
    /\ scrollRAF # 0
    /\ hidden \in classList

\* C10: destroy() on a controller that is not active makes no call to window
\* and changes nothing; destroy() on an active one unsubscribes once.
C10_DestroyIdempotent ==
    /\ (last.op = "destroy" /\ ~last.isInitialized)
          => /\ last.calls = <<>>
             /\ ~isInitialized
             /\ listeners = last.listeners
             /\ classList = last.classList
             /\ scrollLast = last.scrollLast
             /\ scrollRAF = last.scrollRAF
             /\ burst = last.burst
    /\ (last.op = "destroy" /\ last.isInitialized)
          => /\ Cardinality({i \in DOMAIN last.calls :
                               last.calls[i] = "removeEventListener"}) = 1
             /\ ~isInitialized
             /\ listeners = {}

C10_Witness ==
    /\ last.op = "destroy"
    /\ ~last.isInitialized
    /\ hidden \in classList
    /\ listeners = {}

\* C11: destroy() on an active controller leaves it inactive, with no scroll
\* listener on window, no frame scheduled and no handle stored, the fixed
\* and the hidden class absent and the base class present.
C11_DestroyPostcondition ==
    (last.op = "destroy" /\ last.isInitialized)
        => /\ ~isInitialized
           /\ listeners = {}
           /\ scrollRAF = 0
           /\ frameCallbacks = {}
           /\ fixed \notin classList
           /\ hidden \notin classList
           /\ base \in classList
           /\ last.scrollRAF # 0
                 => \E i \in DOMAIN last.calls : last.calls[i] = "cancelAnimationFrame"

C11_Witness ==
    /\ last.op = "destroy"
    /\ last.isInitialized
    /\ last.scrollRAF # 0
    /\ fixed \in last.classList
    /\ hidden \in last.classList
    /\ ~isInitialized

\* C12 as stated: a controller that is not active never becomes active again.
C12_NoReactivation ==
    [][~isInitialized => ~isInitialized']_vars

\* C12 amended: the controller goes from active to inactive by destroy() and
\* from inactive to active again by init(), which registers the scroll
\* listener again; no other operation changes the active flag or the
\* listeners.
C12_ReactivationOnlyByInit ==
    /\ (last.op = "init" /\ ~last.isInitialized)
          => /\ isInitialized
             /\ listeners = {"handleScroll"}
             /\ last.calls = <<"addEventListener">>
    /\ (isInitialized /\ ~last.isInitialized) => last.op \in {"init", "constructor"}
    /\ (~isInitialized /\ last.isInitialized) => last.op = "destroy"
    /\ listeners # last.listeners => last.op \in {"init", "destroy", "constructor"}

C12_Witness ==
    /\ last.op = "init"
    /\ ~last.isInitialized
    /\ isInitialized
    /\ listeners = {"handleScroll"}

\* C13 as stated: once destroy() has cancelled a frame, the class list and
\* scrollLast change only by a reset(), fix() or hide() call.
C13_StaysUntilManualCall ==
    [][(cancelled /\ last'.op \notin {"reset", "fix", "hide"})
          => (classList' = classList /\ scrollLast' = scrollLast)]_vars

\* C13 amended: destroy() cancels the pending frame, which never runs; while
\* the controller stays inactive no evaluation runs and the class list and
\* scrollLast change only by reset(), fix() or hide(); every evaluation
\* belongs to a frame requested by an active controller after the latest
\* destroy().
C13_CancelledFrameNeverRuns ==
    /\ (last.op = "destroy" /\ last.scrollRAF # 0)
          => /\ last.scrollRAF \notin frameCallbacks
             /\ scrollRAF = 0
             /\ \E i \in DOMAIN last.calls : last.calls[i] = "cancelAnimationFrame"
    /\ ~isInitialized => (frameCallbacks = {} /\ last.op # "frame")
    /\ (~isInitialized /\ ~last.isInitialized)
          => /\ scrollLast = last.scrollLast
             /\ classList # last.classList => last.op \in {"reset", "fix", "hide"}
    /\ last.op = "frame"
          => (last.isInitialized /\ last.burst.requests >= 1 /\ last.scrollRAF # 0)

C13_Witness ==
    /\ last.op = "destroy"
    /\ last.scrollRAF # 0
    /\ cancelled
    /\ hidden \in last.classList
    /\ pageYOffset # scrollLast
    /\ frameCallbacks = {}

\* C14: reset(), in every lifecycle state and from every class list, leaves
\* the fixed and the hidden class absent and the base class as it was, and
\* changes neither the active flag, the listeners, scrollLast nor the
\* pending frame.
C14_ResetUnconditional ==
    last.op = "reset"
        => /\ fixed \notin classList
           /\ hidden \notin classList
           /\ (base \in classList) = (base \in last.classList)
           /\ isInitialized = last.isInitialized
           /\ listeners = last.listeners
           /\ scrollLast = last.scrollLast
           /\ scrollRAF = last.scrollRAF
           /\ burst = last.burst
           /\ frameCallbacks = (IF last.scrollRAF = 0 THEN {} ELSE {last.scrollRAF})

C14_Witness ==
    /\ last.op = "reset"
    /\ ~last.isInitialized
    /\ fixed \in last.classList
    /\ hidden \in last.classList
    /\ base \in classList

\* C15: fix(), from every state, leaves the fixed class present and the
\* hidden class absent, and changes neither scrollLast, the pending frame,
\* the active flag nor the listeners.
C15_FixUnconditional ==
    last.op = "fix"
        => /\ fixed \in classList
           /\ hidden \notin classList
           /\ (base \in classList) = (base \in last.classList)
           /\ isInitialized = last.isInitialized
           /\ listeners = last.listeners
           /\ scrollLast = last.scrollLast
           /\ scrollRAF = last.scrollRAF
           /\ burst = last.burst
           /\ frameCallbacks = (IF last.scrollRAF = 0 THEN {} ELSE {last.scrollRAF})

C15_Witness ==
    /\ last.op = "fix"
    /\ hidden \in last.classList
    /\ fixed \notin last.classList
    /\ last.scrollRAF # 0
    /\ pageYOffset # scrollLast

\* C16: hide(), from every state, leaves the hidden class present and the
\* fixed class, the base class, scrollLast, the pending frame, the active
\* flag and the listeners as they were.
C16_HideOnlyAdds ==
    last.op = "hide"
        => /\ hidden \in classList
           /\ (fixed \in classList) = (fixed \in last.classList)
           /\ (base \in classList) = (base \in last.classList)
           /\ isInitialized = last.isInitialized
           /\ listeners = last.listeners
           /\ scrollLast = last.scrollLast
           /\ scrollRAF = last.scrollRAF
           /\ burst = last.burst
           /\ frameCallbacks = (IF last.scrollRAF = 0 THEN {} ELSE {last.scrollRAF})

C16_Witness ==
    /\ last.op = "hide"
    /\ fixed \in last.classList
    /\ hidden \notin last.classList
    /\ fixed \in classList
    /\ hidden \in classList

\* C17: the constructor checks the environment, then the element, then the
\* capabilities: outside a browser it ends with the environment error
\* whatever the element, in a browser without an element with the element
\* error whatever the capabilities, in a browser with an element and without
\* requestAnimationFrame or classList with the support error; a failed
\* construction adds no class, registers no listener and schedules no frame.
C17_ConstructionChecks ==
    construction.outcome # "none"
        => LET h == construction
               browser == /\ h.windowType # "undefined"
                          /\ h.documentType # "undefined"
                          /\ h.instanceOfDocument
               capable == /\ h.hasRAF
                          /\ h.documentElement = "classList"
           IN /\ ~browser => h.outcome = "EnvironmentError"
              /\ (browser /\ h.element = "null") => h.outcome = "ElementError"
              /\ (browser /\ h.element # "null" /\ ~capable) => h.outcome = "SupportError"
              /\ h.outcome # "constructed"
                    => (classList = {} /\ listeners = {} /\ frameCallbacks = {}
                        /\ ~isInitialized)

\* C18: isSupported() returns a boolean in every host, never an error, and
\* returns true only in a browser that has requestAnimationFrame and
\* classList.
C18_IsSupportedNeverThrows ==
    construction.supported # "none"
        => /\ construction.supported \in {"true", "false"}
           /\ construction.supported = "true"
                 => /\ construction.windowType = "object"
                    /\ construction.instanceOfDocument
                    /\ construction.hasRAF
                    /\ construction.documentElement = "classList"

\* C19: after a successful construction, from every scroll offset, the
\* element has the base class and neither the fixed nor the hidden class, the
\* controller is active with one scroll listener, no frame is pending, and
\* scrollLast is the scroll offset.
C19_ConstructionPostcondition ==
    (last.op = "constructor" /\ construction.outcome = "constructed")
        => /\ classList = {base}
           /\ isInitialized
           /\ listeners = {"handleScroll"}
           /\ last.calls = <<"addEventListener">>
           /\ scrollRAF = 0
           /\ frameCallbacks = {}
           /\ scrollLast = pageYOffset

C19_Witness ==
    /\ construction.outcome = "constructed"
    /\ last.op = "constructor"
    /\ pageYOffset > 0
    /\ scrollLast = pageYOffset
    /\ isInitialized

\* C20: with showAtBottom = false an evaluation that sees the bottom of the
\* document behaves as anywhere else: it calls fix() only for an upward or
\* zero movement past startOffset and tolerance, and an element hidden
\* before is still hidden after scrolling further down to the bottom
\* (offsets 0 -> 200 -> 976 with viewport 1024 and document 2000).
C20_NoBottomRuleWhenOff ==
    /\ (/\ last.op = "frame"
        /\ ~showAtBottom
        /\ pageYOffset > 0
        /\ viewportHeight + pageYOffset >= scrollHeight - 1)
           => /\ last.rule = "fix"
                    => /\ pageYOffset > startOffset
                       /\ pageYOffset <= last.scrollLast
                       /\ last.scrollLast - pageYOffset >= tolerance
              /\ (hidden \in last.classList /\ pageYOffset > last.scrollLast)
                    => (hidden \in classList
                        /\ (fixed \in classList) = (fixed \in last.classList))
    /\ LET d1 == evaluate({base}, 0, 200, 1024, 2000, 50, 8, FALSE)
           d2 == evaluate(d1, 200, 976, 1024, 2000, 50, 8, FALSE)
       IN hidden \in d1 /\ hidden \in d2 /\ fixed \notin d2

C20_Witness ==
    /\ last.op = "frame"
    /\ ~showAtBottom
    /\ viewportHeight + pageYOffset >= scrollHeight - 1
    /\ viewportHeight + last.scrollLast < scrollHeight - 1
    /\ last.scrollLast > startOffset
    /\ pageYOffset > last.scrollLast
    /\ hidden \in last.classList
    /\ fixed \notin last.classList
    /\ hidden \in classList
    /\ fixed \notin classList

\* C22 as stated: for every tolerance >= 0, an evaluation that reads the
\* offset recorded before, with neither the at-top nor the bottom rule
\* firing, calls nothing and leaves the class list as it was.
C22_ZeroDeltaNoOp ==
    (/\ last.op = "frame"
     /\ pageYOffset > 0
     /\ ~(showAtBottom /\ viewportHeight + pageYOffset >= scrollHeight - 1)
     /\ pageYOffset = last.scrollLast)
        => (last.rule = "none" /\ classList = last.classList)

\* C22 amended: such an evaluation calls nothing and leaves the class list
\* as it was when the tolerance is > 0 or the offset is not past
\* startOffset; with tolerance = 0 and the offset past startOffset the zero
\* delta passes the gate (0 >= 0) and the evaluation calls fix().
C22_ZeroDeltaNoOpAboveZeroTolerance ==
    (/\ last.op = "frame"
     /\ pageYOffset > 0
     /\ ~(showAtBottom /\ viewportHeight + pageYOffset >= scrollHeight - 1)
     /\ pageYOffset = last.scrollLast)
        => /\ (tolerance > 0 \/ pageYOffset <= startOffset)
                 => (last.rule = "none" /\ classList = last.classList)
           /\ (tolerance = 0 /\ pageYOffset > startOffset)
                 => /\ last.rule = "fix"
                    /\ classList = (last.classList \cup {fixed}) \ {hidden}

C22_Witness ==
    /\ last.op = "frame"
    /\ pageYOffset > startOffset
    /\ ~(showAtBottom /\ viewportHeight + pageYOffset >= scrollHeight - 1)
    /\ pageYOffset = last.scrollLast
    /\ tolerance = 1
    /\ hidden \in last.classList
    /\ hidden \in classList

\* C23: the base class is on the element in every state after a successful
\* construction, whatever evaluations run and whatever init(), destroy(),
\* reset(), fix() and hide() calls are made.
C23_BasePermanent ==
    /\ base \in classList
    /\ base \in last.classList \/ last.op = "constructor"

C23_Witness ==
    /\ last.op = "reset"
    /\ ~last.isInitialized
    /\ last.classList = {base, fixed, hidden}
    /\ classList = {base}
    /\ pageYOffset # scrollLast

\* C24: the evaluation applies the first rule that matches, in this order:
\* offset <= 0 removes fixed and hidden, also at the bottom and past the
\* tolerance; else, with showAtBottom, viewport + offset >= document - 1 adds
\* fixed and removes hidden, also for a downward movement past the
\* tolerance, and a sum of document - 2 is not the bottom; else, past
\* startOffset with a delta >= tolerance, a downward movement adds hidden and
\* any other adds fixed and removes hidden; else the class list stays.
C24_DecisionOrder ==
    last.op = "frame"
        => LET cur == pageYOffset
               prev == last.scrollLast
               before == last.classList
               bottom == showAtBottom /\ viewportHeight + cur >= scrollHeight - 1
               gate == cur > startOffset /\ abs(cur - prev) >= tolerance
           IN /\ cur <= 0 => classList = before \ {fixed, hidden}
              /\ (cur > 0 /\ bottom) => classList = (before \cup {fixed}) \ {hidden}
              /\ (cur > 0 /\ ~bottom /\ gate /\ cur > prev)
                    => classList = before \cup {hidden}
              /\ (cur > 0 /\ ~bottom /\ gate /\ cur <= prev)
                    => classList = (before \cup {fixed}) \ {hidden}
              /\ (cur > 0 /\ ~bottom /\ ~gate) => classList = before
              /\ (showAtBottom /\ cur > 0 /\ viewportHeight + cur = scrollHeight - 2
                  /\ gate /\ cur > prev)
                    => (hidden \in classList /\ last.rule = "hide")

C24_Witness ==
    /\ last.op = "frame"
    /\ showAtBottom
    /\ viewportHeight + pageYOffset = scrollHeight - 2
    /\ pageYOffset > startOffset
    /\ pageYOffset > last.scrollLast
    /\ pageYOffset - last.scrollLast >= tolerance
    /\ tolerance > 0
    /\ last.classList = {base, fixed}
    /\ classList = {base, fixed, hidden}

\* C25: every evaluation records the offset it read, whichever rule matched
\* and when none did, and measures its delta against the offset recorded by
\* the step before: hide only for an offset above it, a direction fix only
\* for an offset not above it; construction records the offset it read.
C25_RecordsOffsetRead ==
    /\ last.op = "frame"
          => /\ last.rule \in {"reset", "fix", "hide", "none"}
             /\ \A r \in {"reset", "fix", "hide", "none"} :
                   last.rule = r => scrollLast = pageYOffset
             /\ last.rule = "hide"
                   => (pageYOffset > last.scrollLast
                       /\ pageYOffset - last.scrollLast >= tolerance)
             /\ (last.rule = "fix"
                 /\ ~(showAtBottom /\ viewportHeight + pageYOffset >= scrollHeight - 1))
                   => (pageYOffset <= last.scrollLast
                       /\ last.scrollLast - pageYOffset >= tolerance)
    /\ last.op = "constructor" => scrollLast = pageYOffset

C25_Witness ==
    /\ last.op = "frame"
    /\ last.rule = "none"
    /\ pageYOffset > startOffset
    /\ pageYOffset > last.scrollLast
    /\ last.scrollLast > 0
    /\ classList = last.classList
    /\ scrollLast = pageYOffset

\* C26: scrollLast changes only in an evaluation: a scroll event that
\* requests a frame, one that is coalesced, one that nobody hears, a change
\* of the page, and init(), destroy(), reset(), fix() and hide() leave it.
C26_OnlyEvaluationWrites ==
    /\ \A op \in {"handleScroll", "scrollEvent", "environment",
                  "init", "destroy", "reset", "fix", "hide"} :
          last.op = op => scrollLast = last.scrollLast
    /\ scrollLast # last.scrollLast => last.op = "frame"

C26_Witness ==
    /\ last.op = "handleScroll"
    /\ last.scrollRAF # 0
    /\ pageYOffset # scrollLast
    /\ pageYOffset # last.burst.offset
    /\ scrollLast = last.scrollLast

\* C27: an evaluation leaves no handle and no frame behind, so the first
\* scroll event heard after it requests a new frame; and when every frame
\* that stays scheduled eventually runs, every scroll event heard by the
\* controller is eventually followed by an evaluation or by a destroy() of
\* the active controller.
C27_ThrottleRearms ==
    /\ [](last.op = "frame" => (scrollRAF = 0 /\ frameCallbacks = {}))
    /\ []((last.op = "handleScroll" /\ last.scrollRAF = 0)
             => (/\ last.calls = <<"requestAnimationFrame">>
                 /\ scrollRAF # 0
                 /\ frameCallbacks = {scrollRAF}))
    /\ (last.op = "handleScroll")
          ~> (last.op = "frame" \/ (last.op = "destroy" /\ last.isInitialized))

C27_Witness ==
    /\ last.op = "frame"
    /\ last.scrollRAF # 0
    /\ last.burst.events >= 1
    /\ scrollRAF = 0
    /\ isInitialized
    /\ "handleScroll" \in listeners
    /\ Handles \ frameCallbacks # {}

\* C28: which method an evaluation calls is decided by the previous offset,
\* the offset read, the two heights and the configuration alone: a second
\* evaluation with the same five inputs and any other class list on the
\* element has the effect of the same method, so the classes a manual
\* reset(), fix() or hide() left do not change the decision, and the
\* evaluation overrides them.
C28_DecisionIgnoresClasses ==
    last.op = "frame"
        => \A other \in SUBSET {base, fixed, hidden} :
              LET after == evaluate(other, last.scrollLast, pageYOffset, viewportHeight,
                                    scrollHeight, startOffset, tolerance, showAtBottom)
                  effect(cl) ==
                      CASE last.rule = "reset" -> cl \ {fixed, hidden}
                        [] last.rule = "fix"   -> (cl \cup {fixed}) \ {hidden}
                        [] last.rule = "hide"  -> cl \cup {hidden}
                        [] last.rule = "none"  -> cl
              IN /\ after = effect(other)
                 /\ classList = effect(last.classList)

\* an element hidden by hide() at the top of the page (no evaluation hides
\* there), then fixed by the next evaluation
C28_Witness ==
    /\ last.op = "frame"
    /\ last.scrollLast <= 0
    /\ last.classList = {base, hidden}
    /\ last.rule = "fix"
    /\ classList = {base, fixed}

\* C21 as stated: in scenario C the second evaluation leaves the element
\* hidden; after reset() the third and the fourth evaluation change no
\* class, and the element ends with neither the fixed nor the hidden class.
C21_ScenarioC ==
    /\ (scenario.pc = 2 /\ last.op = "frame") => hidden \in classList
    /\ (scenario.pc \in {3, 4} /\ last.op = "frame")
          => (last.rule = "none" /\ classList = last.classList)
    /\ (scenario.pc = 4 /\ last.op = "frame")
          => (fixed \notin classList /\ hidden \notin classList)

\* C21 amended: the second evaluation (down by the tolerance) leaves the
\* element hidden; reset() removes the class; the third evaluation, back at
\* the first offset, is an upward movement by the tolerance past
\* startOffset and calls fix(); the fourth (down by tolerance - 1) changes
\* no class: the element ends with the fixed class and without the hidden
\* class.
C21_ScenarioCFixedAfterReset ==
    /\ (scenario.pc = 2 /\ last.op = "frame")
          => (last.rule = "hide" /\ hidden \in classList)
    /\ (scenario.pc = 2 /\ last.op = "reset") => classList = {base}
    /\ (scenario.pc = 3 /\ last.op = "frame")
          => (last.rule = "fix" /\ classList = {base, fixed})
    /\ (scenario.pc = 4 /\ last.op = "frame")
          => (last.rule = "none" /\ classList = {base, fixed})

C21_Witness ==
    /\ scenario.pc = 4
    /\ last.op = "frame"
    /\ startOffset = 20
    /\ tolerance = 15
    /\ scenario.offsets = <<50, 65, 50, 64>>
    /\ pageYOffset = 64
    /\ last.scrollLast = 50
    /\ classList = {base, fixed}

\* C30: while every evaluation reads an offset less than the tolerance away
\* from the offset of the evaluation before, above the top and not at the
\* bottom, no evaluation calls a method and the class list stays what it was
\* when the movement started, however far the page has moved in total.
C30_NoAccumulation ==
    /\ scenario.started => classList = scenario.classList
    /\ last.op = "frame" => (last.rule = "none" /\ scrollLast = pageYOffset)

C30_Witness ==
    /\ scenario.started
    /\ last.op = "frame"
    /\ scenario.origin = 0
    /\ scenario.classList = {base}
    /\ pageYOffset > startOffset
    /\ pageYOffset - scenario.origin > tolerance
    /\ classList = {base}

\* C29: the constructor resolves the configuration once: startOffset is the
\* given value, also a given 0, or else the element's height at that moment;
\* tolerance is the given value, also 0, or else 8; showAtBottom is the
\* given value, also false, or else true; and after the construction no
\* step changes the three, whatever the element's height becomes.
C29_ConfigurationFixed ==
    /\ [](construction.outcome = "constructed"
             => LET o == construction.options
                IN /\ o.startOffset.given => startOffset = o.startOffset.value
                   /\ (~o.startOffset.given /\ last.op = "constructor")
                         => startOffset = construction.offsetHeight
                   /\ tolerance = (IF o.tolerance.given THEN o.tolerance.value ELSE 8)
                   /\ showAtBottom =
                         (IF o.showAtBottom.given THEN o.showAtBottom.value ELSE TRUE))
    /\ [][construction.outcome = "constructed"
             => /\ startOffset' = startOffset
                /\ tolerance' = tolerance
                /\ showAtBottom' = showAtBottom]_vars

C29_Witness ==
    /\ construction.outcome = "constructed"
    /\ last.op = "environment"
    /\ ~construction.options.startOffset.given
    /\ startOffset # construction.offsetHeight
    /\ construction.options.tolerance.given
    /\ construction.options.tolerance.value = 0
    /\ tolerance = 0
    /\ construction.options.showAtBottom.given
    /\ ~showAtBottom

\* C31: the scroll listener is registered on window exactly while the
\* controller is active, once; a scroll event while it is not active
\* reaches no handler, requests no frame and leaves the controller as it was.
C31_SubscribedIffActive ==
    /\ isInitialized => listeners = {"handleScroll"}
    /\ ~isInitialized => listeners = {}
    /\ last.op = "scrollEvent"
          => /\ ~isInitialized
             /\ last.calls = <<>>
             /\ scrollRAF = 0
             /\ frameCallbacks = {}
             /\ classList = last.classList
             /\ scrollLast = last.scrollLast
    /\ last.op = "handleScroll" => (isInitialized /\ last.isInitialized)

C31_Witness ==
    /\ last.op = "scrollEvent"
    /\ ~isInitialized
    /\ listeners = {}
    /\ pageYOffset # scrollLast
    /\ pageYOffset > startOffset
    /\ frameCallbacks = {}

\* C32: a stored handle implies an active controller, and the handle is
\* stored exactly while its frame is scheduled: the frame callback and
\* destroy() clear it when the frame runs or is cancelled, and no frame is
\* scheduled without its handle being stored.
C32_HandleIffFrameScheduled ==
    /\ scrollRAF # 0 => isInitialized
    /\ frameCallbacks # {} => isInitialized
    /\ scrollRAF # 0 => frameCallbacks = {scrollRAF}
    /\ scrollRAF = 0 => frameCallbacks = {}
    /\ (last.op \in {"frame", "destroy"} /\ last.scrollRAF # 0)
          => (scrollRAF = 0 /\ last.scrollRAF \notin frameCallbacks)

C32_Witness ==
    /\ last.op = "destroy"
    /\ last.scrollRAF # 0
    /\ last.burst.events = MaxEvents
    /\ scrollRAF = 0
    /\ frameCallbacks = {}
    /\ ~isInitialized

\* C33: an evaluation that adds the hidden class read an offset above 0,
\* above startOffset and above the previous offset by at least the
\* tolerance, with the bottom rule not firing; so, when the client never
\* calls hide(), the element has the hidden class only after the scroll
\* offset has been above startOffset.
C33_HiddenOnlyByDownwardMove ==
    /\ (last.op = "frame" /\ hidden \notin last.classList /\ hidden \in classList)
          => /\ pageYOffset > 0
             /\ pageYOffset > startOffset
             /\ pageYOffset > last.scrollLast
             /\ pageYOffset - last.scrollLast >= tolerance
             /\ ~showAtBottom \/ viewportHeight + pageYOffset < scrollHeight - 1
    /\ hidden \in classList => scenario.exceeded
    /\ (hidden \in classList /\ hidden \notin last.classList) => last.op = "frame"

C33_Witness ==
    /\ last.op = "frame"
    /\ hidden \notin last.classList
    /\ hidden \in classList
    /\ fixed \in classList
    /\ showAtBottom
    /\ startOffset > 0
    /\ pageYOffset = startOffset + 1
    /\ pageYOffset - last.scrollLast = tolerance
    /\ tolerance > 0

====
